---- MODULE Spec2Model ----
(***************************************************************************)
(* SMTP ingestion gateway (roadrunner-plugins/smtp-server).                *)
(*                                                                         *)
(* The repository holds two co-existing implementations of the SMTP        *)
(* session:                                                                *)
(*   "backend" : package backend (src/backend/session.go), driven by the   *)
(*               multi-server Plugin of src/rpc.go (Plugin.Exec)            *)
(*   "smtp"    : package smtp (src/unnamed/part_001, Session), driven by    *)
(*               the Plugin of src/plugin.go (Session.sendToWorker)         *)
(* A build of the plugin runs one of them; `impl` records which.           *)
(*                                                                         *)
(* Sessions are driven by the go-smtp connection loop: the session object  *)
(* is created by the first HELO/EHLO, commands of one connection are       *)
(* serialized, DATA is answered with the status of Session.Data's return   *)
(* value and followed by Conn.reset(), which calls Session.Reset().        *)
(***************************************************************************)
EXTENDS Integers, Sequences, FiniteSets, TLC

\* ---------------------------------------------------------------- bounds

\* max_message_size of the configuration (bytes), scaled down
MaxMessageSize == 2
\* max_recipients of the configuration, scaled down
MaxRecipients == 2
\* longest DATA body a client sends: below, at and above the limit
MaxBody == MaxMessageSize + 1
\* the recipient list is not followed beyond this length
MaxTo == MaxRecipients + 1

\* ------------------------------------------------------- program constants

\* time.After(30 * time.Second) in sendToWorker
DispatchTimeout == 30
\* smtpServer.MaxRecipients = 100 in package smtp's Plugin.Serve
ServerMaxRecipients == 100

Impls == {"backend", "smtp"}
\* the connections followed; Spec follows one of them through every
\* command, PluginSpec follows both through one message each
Sessions == {1, 2}
Solo == {1}
Addrs == {"a@x", "b@x"}
\* the hostname a client gives in HELO/EHLO
Hosts == {"client.example"}
\* the mechanisms a client may name in AUTH
Mechanisms == {"PLAIN", "LOGIN"}
\* username/password pairs a client may send; nothing is verified
Credentials == {<<"user", "secret">>, <<"", "">>}

\* handler.CONTINUE / handler.CLOSE
CONTINUE == "CONTINUE"
CLOSE == "CLOSE"
\* metadata a worker may put in its reply
Replies == {CONTINUE, CLOSE, "", "close", "CLOSE "}

\* the names of the configured SMTP servers (p.cfg.Servers); package smtp's
\* plugin has the one server, the first
Servers == {"a", "b"}
\* a server the build does not have
NoServer == [pc |-> "none", closed |-> FALSE]

\* cleanup_after of the configuration, in ticks of the clock, scaled down
CleanupAfter == 2
\* the clock is not followed beyond this time
MaxTime == 5
\* most attachment files written while the cleanup is followed
MaxFiles == 2

\* most workers the pool is grown to
MaxWorkers == 3
\* no operational call made yet
NoOp == [name |-> "none", result |-> "none", arg |-> 0]

\* most calls of Plugin.Reset followed
MaxResets == 1

\* shapes of a DATA body, by what the parsers make of it
MsgKinds == {"plain", "malformed", "noBoundary", "truncated"}

\* ------------------------------------------------- the parser's inputs

\* most parts a multipart message has
MaxParts == 2
\* the parses followed side by side
Parsers == {1, 2}

\* Content-Disposition of a part: absent, or its type
Dispositions == {"", "attachment", "inline"}
\* the filename parameter of the Content-Disposition, "" when absent
FileNames == {"", "f.txt"}
\* the media type of a part's Content-Type
MediaTypes == {"text/plain", "text/html", "image/png"}
\* a part's bytes: the Content-Transfer-Encoding, the length as sent, the
\* length decoded, and whether the bytes decode at all
Payloads ==
  { [enc |-> "", raw |-> 0, dec |-> 0, valid |-> TRUE],
    [enc |-> "", raw |-> 3, dec |-> 3, valid |-> TRUE],
    [enc |-> "base64", raw |-> 4, dec |-> 3, valid |-> TRUE],
    [enc |-> "base64", raw |-> 5, dec |-> 0, valid |-> FALSE],
    [enc |-> "quoted-printable", raw |-> 5, dec |-> 3, valid |-> TRUE] }

\* the parts a message may begin with; a filename needs a disposition
Parts ==
  { q \in [disp : Dispositions, filename : FileNames, media : MediaTypes,
           payload : Payloads] : q.disp = "" => q.filename = "" }
\* the parts that may follow: a text body, an HTML body, an empty HTML
\* body, and an attachment named like any other
MoreParts ==
  { q \in Parts :
      \/ q.disp = "" /\ q.media = "text/plain" /\ q.payload.enc = ""
           /\ q.payload.raw > 0
      \/ q.disp = "" /\ q.media = "text/html" /\ q.payload.enc = ""
      \/ q.disp = "attachment" /\ q.filename = "f.txt"
           /\ q.media = "image/png" /\ q.payload.enc = ""
           /\ q.payload.raw > 0 }

RECURSIVE Follow(_)
\* the lists of at most n parts taken from MoreParts
Follow(n) ==
  IF n = 0 THEN {<< >>}
  ELSE {<< >>} \cup {<<q>> \o r : q \in MoreParts, r \in Follow(n - 1)}

\* the messages parsed: one without Content-Type, and multipart ones
PlainMessage == [top |-> "plain", parts |-> << >>]
Messages ==
  {PlainMessage}
    \cup {[top |-> "multipart", parts |-> << >>]}
    \cup {[top |-> "multipart", parts |-> <<q>> \o r] :
             q \in Parts, r \in Follow(MaxParts - 1)}
\* the messages two parses run on side by side
SharedMessages ==
  {[top |-> "multipart", parts |-> r] : r \in Follow(MaxParts)}

\* ------------------------------------------------------------- error values

NilError == [kind |-> "nil", Code |-> 0]
PlainError == [kind |-> "error", Code |-> 0]
SMTPError(code) == [kind |-> "SMTPError", Code |-> code]

\* go-smtp: the reply code of a command whose handler returned ret
toSMTPStatus(ret) ==
  CASE ret.kind = "nil" -> 250
    [] ret.kind = "SMTPError" -> ret.Code
    [] OTHER -> 554

\* the session's authentication fields at their zero values; in an event,
\* the authentication record left out
NoAuth == [attempted |-> FALSE, mechanism |-> "", username |-> "",
           password |-> ""]
\* no AUTH command issued by the client so far
NoAuthGiven == [issued |-> FALSE, fresh |-> FALSE, mechanism |-> "",
                username |-> "", password |-> ""]

NoEvent == [present |-> FALSE, from |-> "", to |-> << >>, helo |-> "",
            auth |-> NoAuth]
NoResult == [kind |-> "none", ctx |-> "", stream |-> FALSE]
\* what pool.Exec can come back with: an error, or a reply payload
PoolResults ==
  {[kind |-> "error", ctx |-> "", stream |-> FALSE]}
    \cup [kind : {"ok"}, ctx : Replies, stream : BOOLEAN]

NoData == [len |-> 0, readErr |-> FALSE, msg |-> "plain", after452 |-> FALSE,
           parsed |-> FALSE, submits |-> 0, close |-> FALSE, gets |-> 0,
           puts |-> 0, bufGets |-> 0, bufPuts |-> 0]

\* bufferPool.New: an empty bytes.Buffer; a buffer is its length
NewBuffer == 0
\* no buffer held by Session.Data
NoBuffer == [held |-> FALSE, len |-> NewBuffer]

\* payloadPool.New: &payload.Payload{}; Context 0 stands for nil, Context s
\* for the event JSON of session s
NewPayload == [Context |-> 0, Body |-> 0]

VARIABLES
  impl,         \* which session implementation the build runs
  connections,  \* Plugin.connections: ids of the tracked sessions
  conn,         \* per connection: "new" (no session yet), "open", "closed"
  from,         \* Session.from
  to,           \* Session.to
  shouldClose,  \* Session.shouldClose (package smtp only)
  pc,           \* "idle", or "exec" while Session.Data waits in pool.Exec
  event,        \* the event of the session's latest submitted DATA
  result,       \* what pool.Exec returned for the latest dispatch
  waited,       \* seconds the current dispatch has been waiting
  data,         \* the latest DATA command: body, parser and worker use
  reply,        \* the latest command and its SMTP reply code
  fromReceived, \* go-smtp Conn.fromReceived: a MAIL FROM was accepted
  accepted,     \* RCPT TO addresses answered 250 since the last reset
  rejected,     \* a RCPT TO was answered 452 since the last reset
  everFailed,   \* a dispatch of this session has failed before
  helo,         \* Session.helo (backend) / Session.heloName (smtp)
  auth,         \* Session.authAttempted/authenticated, authMechanism,
                \* authUsername, authPassword
  emailData,    \* bytes held in Session.emailData (package smtp only)
  didAuth,      \* go-smtp Conn.didAuth: an AUTH command has succeeded
  heloGiven,    \* the hostname the client gave in HELO/EHLO
  authGiven,    \* the client's latest AUTH command; fresh until the next
                \* event of the session has been answered
  delivered     \* a DATA command of the session has been answered 250

sessionVars == <<helo, auth, emailData, didAuth, heloGiven, authGiven,
                 delivered>>

VARIABLES
  mu,           \* Plugin.mu: the holder of the write lock and the readers
  stopPc,       \* Plugin.Stop: "idle", "lock", "select", "returned"
  shutPc,       \* the goroutine of Stop: "none", "lock", "servers", "pool",
                \* "signal", "done"
  deadline,     \* the context given to Stop is done
  stopResult,   \* what Stop returned: "none", "nil", "deadline"
  serving,      \* the listener and the SMTP server(s) accept connections
  wPool,        \* the worker pool: "nil" before Serve, "alive", "destroyed"
  doneCh,       \* number of values in doneCh (capacity 1)
  payloadPool,  \* Plugin.payloadPool: the envelopes lying in the pool
  pld,          \* per session, the request envelope Session.Data holds
  bufferPool,   \* Plugin.bufferPool: the lengths of the buffers in the pool
  buf           \* per session, the buffer Session.Data holds

VARIABLES
  pmsg,         \* the raw message given to the parser, by its structure
  pmode,        \* AttachmentStorage.Mode: "memory" or "tempfile"
  pauth,        \* authAttempted / authenticated of the session parsing
  puuid,        \* per parse, the uuid of its session
  pst,          \* per parse, where the parser is and what it has built
  files,        \* the paths written in the temp directory
  clobbered,    \* a write went to a path that was there already
  nextId,       \* the fresh ids handed out so far (uuid.NewString, the
                \* random part of os.CreateTemp), none of them twice
  clock         \* time.Now()

parserVars == <<pmsg, pmode, pauth, puuid, pst, files, clobbered, nextId,
                clock>>

VARIABLES
  resets,       \* the times Plugin.Reset has reset the worker pool
  srv,          \* per server, where its start is ("spawned", "registered",
                \* "listening", "returned") and whether it has been closed
  smtpServers,  \* Plugin.smtpServers: the names of the registered servers
  op,           \* the latest operational call, its argument and how it
                \* ended: "nil", "error", "true", "false", or "panic"
  workers,      \* the number of workers of the pool
  modTime,      \* the modification time of each file in the temp directory
  gone,         \* the files a cleanup pass removed, with their age then
  cleanerPc,    \* the cleanup routine: "none", "running", "returned"
  nextTick,     \* when the cleanup ticker fires next
  tickPending,  \* a tick lies in the ticker's channel
  cleanupStop   \* Plugin.cleanupStop is closed and the ticker stopped

cleanupVars == <<modTime, gone, cleanerPc, nextTick, tickPending,
                 cleanupStop>>
serveVars == <<resets, srv, smtpServers, op, workers, modTime, gone,
               cleanerPc, nextTick, tickPending, cleanupStop>>

stopVars == <<stopPc, shutPc, deadline, stopResult, serving, wPool, doneCh>>
pluginVars == <<mu, stopPc, shutPc, deadline, stopResult, serving, wPool,
                doneCh, payloadPool, pld, bufferPool, buf>>

vars == <<impl, connections, conn, from, to, shouldClose, pc, event, result,
          waited, data, reply, fromReceived, accepted, rejected, everFailed,
          helo, auth, emailData, didAuth, heloGiven, authGiven, delivered,
          mu, stopPc, shutPc, deadline, stopResult, serving, wPool, doneCh,
          payloadPool, pld, bufferPool, buf,
          pmsg, pmode, pauth, puuid, pst, files, clobbered, nextId, clock,
          resets, srv, smtpServers, op, workers,
          modTime, gone, cleanerPc, nextTick, tickPending, cleanupStop>>

\* ------------------------------------------------------ the session's code

Min(a, b) == IF a < b THEN a ELSE b

\* the recipient limit in force: max_recipients of the configuration
\* (Session.Rcpt of package backend, and the server built from it), or the
\* fixed limit package smtp gives the go-smtp server, whose Session.Rcpt
\* checks nothing
RecipientLimit(i) ==
  IF i = "backend" THEN MaxRecipients ELSE ServerMaxRecipients

\* Rcpt with the refused address appended all the same
RcptAppendsRefused(i, list, a) ==
  IF Len(list) >= RecipientLimit(i)
    THEN [ret |-> SMTPError(452), to |-> Append(list, a)]
    ELSE [ret |-> NilError, to |-> Append(list, a)]

\* RCPT TO: the return value and the recipient list afterwards
Rcpt(i, list, a) ==
  IF Len(list) >= RecipientLimit(i)
    THEN [ret |-> SMTPError(452), to |-> list]
    ELSE [ret |-> NilError, to |-> Append(list, a)]

\* the go-smtp data reader handed to Session.Data fails once the server's
\* MaxMessageBytes are used up and more is asked of it
DataTooLarge(len) == len >= MaxMessageSize

\* Session.Data, reading the body: the return value, nil when it goes on.
\*  backend: io.LimitReader stops at maxMessageSize bytes (never asking the
\*           data reader for more), a read error is returned as it is, and
\*           n >= maxMessageSize is 552
\*  smtp:    io.Copy to the end of the data reader; every error is 451
ReadBody(i, len, readErr) ==
  IF i = "backend"
    THEN IF readErr THEN PlainError
         ELSE IF Min(len, MaxMessageSize) >= MaxMessageSize
           THEN SMTPError(552)
           ELSE NilError
    ELSE IF readErr \/ DataTooLarge(len) THEN SMTPError(451) ELSE NilError

\* a parser refusing every body
ParseFailsEvery(i, msg) == TRUE

\* whether the parser returns an error for a body of this shape:
\* mail.ReadMessage fails on both; only ParseEmail refuses a multipart
\* Content-Type without boundary
ParseFails(i, msg) ==
  \/ msg = "malformed"
  \/ i = "backend" /\ msg = "noBoundary"

\* whether the parser never returns: both parsers call NextPart again after
\* every error but io.EOF, and a body that ends without its closing
\* boundary, like the empty boundary package smtp goes on with, makes
\* NextPart fail the same way on every call
ParseLoops(i, msg) ==
  \/ msg = "truncated"
  \/ i = "smtp" /\ msg = "noBoundary"

\* a parser error answered as a temporary failure
ParseErrorReturnTemporary(i) == SMTPError(451)

\* Session.Data on a parser error
ParseErrorReturn(i) ==
  IF i = "backend" THEN PlainError ELSE SMTPError(554)

\* Session.AuthPlain (package backend): the fields it assigns; it returns
\* nil for every username and password
AuthPlain(username, password) ==
  [attempted |-> TRUE, mechanism |-> "PLAIN", username |-> username,
   password |-> password]

\* the AUTH command: the return value and the session's authentication
\* fields afterwards.
\*  backend: the session has AuthPlain and nothing for another mechanism
\*  smtp:    the session has no authentication method at all, and no code
\*           of the package assigns the fields
AuthCommand(i, mech, username, password, au) ==
  IF i = "backend"
    THEN IF mech = "PLAIN"
           THEN [ret |-> SMTPError(235), auth |-> AuthPlain(username, password)]
           ELSE [ret |-> SMTPError(504), auth |-> au]
    ELSE [ret |-> SMTPError(502), auth |-> au]

\* the envelope and authentication part of the event the parser builds:
\* the authentication record is there only when the session's flag is set
BuildEvent(f, t, h, au) ==
  [present |-> TRUE, from |-> f, to |-> t, helo |-> h,
   auth |-> IF au.attempted THEN au ELSE NoAuth]

\* Plugin.Exec (package backend's phpExec): pool.Exec returns only when the
\* worker has replied or failed, so the result is in the channel when the
\* select runs and its default branch is never taken
Exec(res) ==
  IF res.kind = "error" THEN [err |-> TRUE, ctx |-> ""]
  ELSE IF res.stream THEN [err |-> TRUE, ctx |-> ""]
  ELSE [err |-> FALSE, ctx |-> res.ctx]

\* Session.sendToWorker (package smtp): the 30 s timer is armed only after
\* pool.Exec has returned, when the reply is already in the channel
sendToWorker(res) ==
  IF res.kind = "error" THEN [err |-> TRUE, ctx |-> ""]
  ELSE [err |-> FALSE, ctx |-> res.ctx]

\* the comparison done without regard to case
IsCloseFold(ctx) == ctx \in {CLOSE, "close"}

\* bytes.Equal(rsp.Context, handler.CLOSE) / case "CLOSE"
IsClose(ctx) == ctx = CLOSE

\* AfterDispatch with the dispatch error left unchecked
AfterDispatchUnchecked(i, res) ==
  IF i = "backend"
    THEN IF IsClose(res.ctx)
           THEN [ret |-> SMTPError(421), close |-> FALSE]
           ELSE [ret |-> NilError, close |-> FALSE]
    ELSE [ret |-> NilError, close |-> IsClose(res.ctx)]

\* Session.Data after the dispatch: the return value and whether
\* shouldClose is set
AfterDispatch(i, res) ==
  IF i = "backend"
    THEN IF Exec(res).err THEN [ret |-> SMTPError(451), close |-> FALSE]
         ELSE IF IsClose(Exec(res).ctx)
           THEN [ret |-> SMTPError(421), close |-> FALSE]
           ELSE [ret |-> NilError, close |-> FALSE]
    ELSE IF sendToWorker(res).err
           THEN [ret |-> SMTPError(451), close |-> FALSE]
         ELSE [ret |-> NilError, close |-> IsClose(sendToWorker(res).ctx)]

\* ------------------------------------------------------ the parser's code

\* the parser before its call
IdleParse ==
  [pc |-> "idle", idx |-> 0, textBody |-> << >>, htmlBody |-> << >>,
   body |-> << >>, attachments |-> << >>, asAttachment |-> << >>,
   receivedAt |-> 0, authentication |-> FALSE]
NoPath == [uuid |-> 0, id |-> 0, name |-> ""]

\* whether the part is taken as an attachment.
\*  backend: the disposition begins with "attachment", or there is a
\*           filename and the media type is neither text/plain nor text/html
\*  smtp:    the disposition begins with "attachment" or with "inline"
IsAttachment(i, q) ==
  IF i = "backend"
    THEN \/ q.disp = "attachment"
         \/ q.filename # "" /\ q.media \notin {"text/plain", "text/html"}
    ELSE q.disp \in {"attachment", "inline"}

\* decodeContent and its callers, on a part's bytes: whether the result
\* is the decoded form, and its length.  A decoder error leaves the raw
\* bytes.  Package smtp's processAttachment decodes base64 only.
DecodeContent(i, payload, attachment) ==
  CASE payload.enc = "base64" ->
         IF payload.valid THEN [decoded |-> TRUE, len |-> payload.dec]
                          ELSE [decoded |-> FALSE, len |-> payload.raw]
    [] payload.enc = "quoted-printable" ->
         IF i = "smtp" /\ attachment
           THEN [decoded |-> FALSE, len |-> payload.raw]
         ELSE IF payload.valid THEN [decoded |-> TRUE, len |-> payload.dec]
                               ELSE [decoded |-> FALSE, len |-> payload.raw]
    [] OTHER -> [decoded |-> FALSE, len |-> payload.raw]

\* string(decodedContent) of part k: empty, or the bytes of that part
Content(i, q, k) ==
  LET c == DecodeContent(i, q.payload, FALSE) IN
    IF c.len = 0 THEN << >> ELSE <<[part |-> k, decoded |-> c.decoded]>>

\* the filename of an attachment without one, n attachments taken so far
FallbackName(i, n) ==
  IF i = "backend" THEN <<"attachment_", n + 1>> ELSE <<"unnamed">>

\* the temp file without the fresh id in its name
TempPathNoFreshId(u, id, name) == [uuid |-> u, id |-> 0, name |-> name]

\* the temp file of an attachment: emailUUID_<fresh uuid>_filename
\* (backend), smtp-att-<uuid>-<random>-filename made by os.CreateTemp (smtp)
TempPath(u, id, name) == [uuid |-> u, id |-> id, name |-> name]

\* the attachment with the fresh id left in its size
ExtractAttachmentStamped(i, q, k, name, mode, path) ==
  LET c == DecodeContent(i, q.payload, TRUE) IN
    [part |-> k, filename |-> name, contentType |-> q.media,
     size |-> c.len + path.id,
     content |-> mode = "memory" /\ c.len > 0,
     path |-> IF mode = "memory" THEN NoPath ELSE path]

\* extractAttachment / processAttachment: the attachment record.  content
\* says whether Content, the base64 of the bytes, is a non-empty string;
\* path is NoPath for the empty string
ExtractAttachment(i, q, k, name, mode, path) ==
  LET c == DecodeContent(i, q.payload, TRUE) IN
    [part |-> k, filename |-> name, contentType |-> q.media,
     size |-> c.len,
     content |-> mode = "memory" /\ c.len > 0,
     path |-> IF mode = "memory" THEN NoPath ELSE path]

\* the body after a part that is not an attachment.
\*  backend: the last text/plain part is textBody, the last text/html part
\*           htmlBody
\*  smtp:    every text part is appended to Body, "\n\n" in between
BodyPart(i, st, q, k) ==
  IF i = "backend"
    THEN CASE q.media = "text/plain" ->
                [st EXCEPT !.textBody = Content(i, q, k)]
           [] q.media = "text/html" ->
                [st EXCEPT !.htmlBody = Content(i, q, k)]
           [] OTHER -> st
    ELSE IF q.media \in {"text/plain", "text/html"}
           THEN [st EXCEPT !.body =
                   IF @ = << >> THEN Content(i, q, k)
                   ELSE @ \o <<[part |-> 0, decoded |-> FALSE]>>
                          \o Content(i, q, k)]
           ELSE st

\* the end of the parts: backend prefers the HTML body
Finish(i, st) ==
  IF i = "backend"
    THEN [st EXCEPT !.pc = "done",
                    !.body = IF st.htmlBody # << >> THEN st.htmlBody
                                                   ELSE st.textBody]
    ELSE [st EXCEPT !.pc = "done"]

\* json.Marshal of the event, as to the two keys that may be left out.
\*  backend: Attachments is a nil slice unless a part was appended, and
\*           tagged omitempty
\*  smtp:    Attachments is made empty and not tagged omitempty
\* Authentication is a nil pointer tagged omitempty unless the flag was set
Marshal(i, st) ==
  [attachments |-> IF i = "backend" /\ st.attachments = << >>
                     THEN "absent" ELSE "array",
   authentication |-> IF st.authentication THEN "object" ELSE "absent"]

\* connections.Store / connections.Delete: sync.Map, each call atomic
Store(reg, s) == reg \cup {s}
\* a delete that drops every entry
DeleteAll(reg, s) == {}
Delete(reg, s) == reg \ {s}

\* payloadPool.Put(pld), as Session.Data calls it: the envelope goes back
\* as it is
Put(pool, p) == pool \cup {p}

\* the buffer put back as it is
PutBufferUnreset(pool, b) == pool \cup {b}

\* the deferred buf.Reset(); s.bufferPool.Put(buf) of Session.Data
PutBuffer(pool, b) == pool \cup {NewBuffer}

\* p.mu.RLock() goes through: no writer holds the lock or waits for it
RLockFree ==
  /\ mu.writer = "none"
  /\ stopPc # "lock" /\ shutPc # "lock"

\* p.mu.Lock() goes through
LockFree == mu.writer = "none" /\ mu.readers = {}

\* the verdict with a CLOSE given to another session taken for one's own
VerdictShared(s, res) ==
  IF \E t \in Sessions \ {s} : result[t].kind = "ok" /\ result[t].ctx = CLOSE
    THEN [ret |-> SMTPError(421), close |-> TRUE]
    ELSE AfterDispatch(impl, res)

\* what Session.Data of session s makes of the result its own call of the
\* dispatcher returned: the result is a local of that call
Verdict(s, res) == AfterDispatch(impl, res)

\* ------------------------------------------------------------ the actions

\* no cleanup routine: Serve starts none in memory mode
InitNoCleanup ==
  /\ modTime = << >>
  /\ gone = {}
  /\ cleanerPc = "none"
  /\ nextTick = 0
  /\ tickPending = FALSE
  /\ cleanupStop = FALSE

\* the servers listening, nothing called
InitListening ==
  /\ resets = 0
  /\ srv = [n \in Servers |->
             IF impl = "backend" \/ n = "a"
               THEN [pc |-> "listening", closed |-> FALSE] ELSE NoServer]
  /\ smtpServers = IF impl = "backend" THEN Servers ELSE {}
  /\ op = NoOp
  /\ workers = 1

\* the plugin after Serve
InitServed ==
  /\ InitListening
  /\ InitNoCleanup

\* no connection yet, the pools empty
InitEnvelope ==
  /\ impl \in Impls
  /\ connections = {}
  /\ conn = [s \in Sessions |-> "new"]
  /\ from = [s \in Sessions |-> ""]
  /\ to = [s \in Sessions |-> << >>]
  /\ shouldClose = [s \in Sessions |-> FALSE]
  /\ pc = [s \in Sessions |-> "idle"]
  /\ event = [s \in Sessions |-> NoEvent]
  /\ result = [s \in Sessions |-> NoResult]
  /\ waited = [s \in Sessions |-> 0]
  /\ data = [s \in Sessions |-> NoData]
  /\ reply = [s \in Sessions |-> [cmd |-> "NONE", code |-> 0]]
  /\ fromReceived = [s \in Sessions |-> FALSE]
  /\ accepted = [s \in Sessions |-> << >>]
  /\ rejected = [s \in Sessions |-> FALSE]
  /\ everFailed = [s \in Sessions |-> FALSE]
  /\ helo = [s \in Sessions |-> ""]
  /\ auth = [s \in Sessions |-> NoAuth]
  /\ emailData = [s \in Sessions |-> 0]
  /\ didAuth = [s \in Sessions |-> FALSE]
  /\ heloGiven = [s \in Sessions |-> ""]
  /\ authGiven = [s \in Sessions |-> NoAuthGiven]
  /\ delivered = [s \in Sessions |-> FALSE]
  /\ payloadPool = {}
  /\ pld = [s \in Sessions |-> NewPayload]
  /\ bufferPool = {}
  /\ buf = [s \in Sessions |-> NoBuffer]

\* Stop not called
InitStop ==
  /\ mu = [writer |-> "none", readers |-> {}]
  /\ stopPc = "idle"
  /\ shutPc = "none"
  /\ deadline = FALSE
  /\ stopResult = "none"
  /\ doneCh = 0

InitSessions ==
  /\ InitEnvelope
  /\ InitStop
  /\ serving = TRUE
  /\ wPool = "alive"
  /\ InitServed

\* no parse followed apart from the sessions
InitNoParse ==
  /\ pmsg = PlainMessage
  /\ pmode = "memory"
  /\ pauth = FALSE
  /\ puuid = [p \in Parsers |-> p]
  /\ pst = [p \in Parsers |-> IdleParse]
  /\ files = {}
  /\ clobbered = FALSE
  /\ nextId = 0
  /\ clock = 0

Init == InitSessions /\ InitNoParse

Replied(s, cmd, ret) ==
  reply' = [reply EXCEPT ![s] = [cmd |-> cmd, code |-> toSMTPStatus(ret)]]

\* a command other than DATA: the record of the latest DATA command ends
NotData(s) ==
  /\ data' = [data EXCEPT ![s] = NoData]
  /\ event' = [event EXCEPT ![s] = NoEvent]
  /\ result' = [result EXCEPT ![s] = NoResult]

\* Session.Reset leaving the recipients as they are
SessionResetKeepsTo(s) ==
  /\ from' = [from EXCEPT ![s] = ""]
  /\ UNCHANGED to
  /\ auth' = [auth EXCEPT ![s] = IF impl = "backend" THEN NoAuth ELSE @]
  /\ emailData' = [emailData EXCEPT ![s] = 0]
  /\ fromReceived' = [fromReceived EXCEPT ![s] = FALSE]
  /\ accepted' = [accepted EXCEPT ![s] = << >>]
  /\ rejected' = [rejected EXCEPT ![s] = FALSE]

\* Session.Reset leaving the authentication fields as they are
SessionResetKeepsAuth(s) ==
  /\ from' = [from EXCEPT ![s] = ""]
  /\ to' = [to EXCEPT ![s] = << >>]
  /\ UNCHANGED auth
  /\ emailData' = [emailData EXCEPT ![s] = 0]
  /\ fromReceived' = [fromReceived EXCEPT ![s] = FALSE]
  /\ accepted' = [accepted EXCEPT ![s] = << >>]
  /\ rejected' = [rejected EXCEPT ![s] = FALSE]

\* Session.Reset, and the connection's own transaction state cleared with
\* it.  Package backend's Reset clears the authentication fields; package
\* smtp's Reset clears from, to and emailData only
SessionReset(s) ==
  /\ from' = [from EXCEPT ![s] = ""]
  /\ to' = [to EXCEPT ![s] = << >>]
  /\ auth' = [auth EXCEPT ![s] = IF impl = "backend" THEN NoAuth ELSE @]
  /\ emailData' = [emailData EXCEPT ![s] = 0]
  /\ fromReceived' = [fromReceived EXCEPT ![s] = FALSE]
  /\ accepted' = [accepted EXCEPT ![s] = << >>]
  /\ rejected' = [rejected EXCEPT ![s] = FALSE]

\* the first HELO/EHLO of a connection, with the hostname h:
\* Backend.NewSession.  Neither NewSession nor any later code assigns the
\* session's helo field
NewSession(s, h) ==
  /\ conn[s] = "new"
  /\ serving
  /\ conn' = [conn EXCEPT ![s] = "open"]
  /\ connections' = Store(connections, s)
  /\ heloGiven' = [heloGiven EXCEPT ![s] = h]
  /\ Replied(s, "HELO", NilError)
  /\ UNCHANGED <<impl, from, to, shouldClose, pc, event, result, waited, data,
                 fromReceived, accepted, rejected, everFailed, helo, auth,
                 emailData, didAuth, authGiven, delivered>>
  /\ UNCHANGED pluginVars
  /\ UNCHANGED parserVars
  /\ UNCHANGED serveVars

\* AUTH, once per connection at most: the go-smtp connection refuses it
\* after an AUTH that succeeded
Auth(s, mech, cred) ==
  /\ conn[s] = "open" /\ pc[s] = "idle"
  /\ ~didAuth[s]
  /\ LET r == AuthCommand(impl, mech, cred[1], cred[2], auth[s]) IN
       /\ auth' = [auth EXCEPT ![s] = r.auth]
       /\ didAuth' = [didAuth EXCEPT ![s] = toSMTPStatus(r.ret) = 235]
       /\ Replied(s, "AUTH", r.ret)
  /\ authGiven' = [authGiven EXCEPT ![s] =
       [issued |-> TRUE, fresh |-> TRUE, mechanism |-> mech,
        username |-> cred[1], password |-> cred[2]]]
  /\ NotData(s)
  /\ UNCHANGED <<impl, connections, conn, from, to, shouldClose, pc, waited,
                 fromReceived, accepted, rejected, everFailed, helo,
                 emailData, heloGiven, delivered>>
  /\ UNCHANGED pluginVars
  /\ UNCHANGED parserVars
  /\ UNCHANGED serveVars

\* MAIL FROM: Session.Mail
Mail(s, a) ==
  /\ conn[s] = "open" /\ pc[s] = "idle"
  /\ from' = [from EXCEPT ![s] = a]
  /\ fromReceived' = [fromReceived EXCEPT ![s] = TRUE]
  /\ Replied(s, "MAIL", NilError)
  /\ NotData(s)
  /\ UNCHANGED <<impl, connections, conn, to, shouldClose, pc, waited,
                 accepted, rejected, everFailed>>
  /\ UNCHANGED sessionVars
  /\ UNCHANGED pluginVars
  /\ UNCHANGED parserVars
  /\ UNCHANGED serveVars

\* RCPT TO: Session.Rcpt
RcptTo(s, a) ==
  /\ conn[s] = "open" /\ pc[s] = "idle"
  /\ fromReceived[s]
  /\ Len(to[s]) < MaxTo
  /\ LET r == Rcpt(impl, to[s], a) IN
       /\ to' = [to EXCEPT ![s] = r.to]
       /\ Replied(s, "RCPT", r.ret)
       /\ accepted' = [accepted EXCEPT ![s] =
            IF toSMTPStatus(r.ret) = 250 THEN Append(@, a) ELSE @]
       /\ rejected' = [rejected EXCEPT ![s] = @ \/ toSMTPStatus(r.ret) = 452]
  /\ NotData(s)
  /\ UNCHANGED <<impl, connections, conn, from, shouldClose, pc, waited,
                 fromReceived, everFailed>>
  /\ UNCHANGED sessionVars
  /\ UNCHANGED pluginVars
  /\ UNCHANGED parserVars
  /\ UNCHANGED serveVars

\* the envelope filled only where it is empty
FillPayloadIfEmpty(e, s) ==
  [e EXCEPT !.Context = IF @ = 0 THEN s ELSE @, !.Body = 0]

\* Session.Data / sendToWorker fill the envelope e for the dispatch of
\* session s: pld.Context = jsonData, pld.Body = nil
FillPayload(e, s) == [e EXCEPT !.Context = s, !.Body = 0]

\* DATA reaching Session.Data whatever came before it
DataAllowedAlways(s) == TRUE

\* whether the connection hands a DATA command to Session.Data: only with
\* a MAIL FROM and a recipient accepted since the last reset; Session.Data
\* itself looks at neither
DataAllowed(s) == fromReceived[s] /\ Len(to[s]) > 0

\* DATA outside a transaction: the connection answers 502 and Session.Data
\* is not called
DataRefused(s) ==
  /\ conn[s] \in {"new", "open"} /\ pc[s] = "idle"
  /\ ~DataAllowed(s)
  /\ Replied(s, "DATA", SMTPError(502))
  /\ NotData(s)
  /\ UNCHANGED <<impl, connections, conn, from, to, shouldClose, pc, waited,
                 fromReceived, accepted, rejected, everFailed>>
  /\ UNCHANGED sessionVars
  /\ UNCHANGED pluginVars
  /\ UNCHANGED parserVars
  /\ UNCHANGED serveVars

\* DATA up to the dispatch: Session.Data reads the body, parses it and
\* submits the event to the worker pool; a failure on the way ends the
\* command, which the connection follows with its reset.
\*  backend: the envelope comes from payloadPool.Get(), one lying in the
\*           pool or a new one, and Plugin.Exec holds the read lock from
\*           here to its return
\*  smtp:    the envelope is allocated, and sendToWorker holds the read
\*           lock only to read the pool handle
DataRead(s, len, readErr, msg) ==
  /\ conn[s] = "open" /\ pc[s] = "idle"
  /\ DataAllowed(s)
  /\ result' = [result EXCEPT ![s] = NoResult]
  /\ waited' = [waited EXCEPT ![s] = 0]
  /\ \E b \in (IF impl = "backend" THEN bufferPool ELSE {}) \cup {NewBuffer} :
     LET rd == ReadBody(impl, len, readErr)
         pooled == IF impl = "backend" THEN 1 ELSE 0
         \* the buffer after buf.ReadFrom(limitedReader)
         read == b + Min(len, MaxMessageSize)
         d == [len |-> len, readErr |-> readErr, msg |-> msg,
               after452 |-> rejected[s], parsed |-> FALSE, submits |-> 0,
               close |-> FALSE, gets |-> 0, puts |-> 0,
               bufGets |-> pooled, bufPuts |-> 0]
         returned == IF impl = "backend"
                       THEN PutBuffer(bufferPool \ {b}, read) ELSE bufferPool
         taken == IF impl = "backend" THEN bufferPool \ {b} ELSE bufferPool
         inHand == IF impl = "backend" THEN [held |-> TRUE, len |-> read]
                                       ELSE NoBuffer
     IN
       IF rd.kind # "nil"
         THEN /\ data' = [data EXCEPT ![s] = [d EXCEPT !.bufPuts = pooled]]
              /\ event' = [event EXCEPT ![s] = NoEvent]
              /\ Replied(s, "DATA", rd)
              /\ SessionReset(s)
              /\ bufferPool' = returned
              /\ UNCHANGED <<pc, mu, payloadPool, pld, buf>>
       ELSE IF ParseFails(impl, msg)
         THEN /\ data' = [data EXCEPT ![s] =
                   [d EXCEPT !.parsed = TRUE, !.bufPuts = pooled]]
              /\ event' = [event EXCEPT ![s] = NoEvent]
              /\ Replied(s, "DATA", ParseErrorReturn(impl))
              /\ SessionReset(s)
              /\ bufferPool' = returned
              /\ UNCHANGED <<pc, mu, payloadPool, pld, buf>>
       ELSE IF ParseLoops(impl, msg)
         THEN /\ data' = [data EXCEPT ![s] = [d EXCEPT !.parsed = TRUE]]
              /\ event' = [event EXCEPT ![s] = NoEvent]
              /\ pc' = [pc EXCEPT ![s] = "parse"]
              /\ emailData' = [emailData EXCEPT ![s] =
                   IF impl = "smtp" THEN len ELSE 0]
              /\ bufferPool' = taken
              /\ buf' = [buf EXCEPT ![s] = inHand]
              /\ UNCHANGED <<reply, from, to, fromReceived, accepted,
                             rejected, auth, mu, payloadPool, pld>>
       ELSE /\ RLockFree
            /\ mu' = [mu EXCEPT !.readers =
                 IF impl = "backend" THEN @ \cup {s} ELSE @]
            /\ \E e \in (IF impl = "backend" THEN payloadPool ELSE {})
                           \cup {NewPayload} :
                 /\ pld' = [pld EXCEPT ![s] = FillPayload(e, s)]
                 /\ payloadPool' = IF impl = "backend"
                                     THEN payloadPool \ {e} ELSE payloadPool
            /\ data' = [data EXCEPT ![s] =
                 [d EXCEPT !.parsed = TRUE, !.submits = 1,
                           !.gets = pooled]]
            /\ event' = [event EXCEPT ![s] =
                 BuildEvent(from[s], to[s], helo[s], auth[s])]
            /\ emailData' = [emailData EXCEPT ![s] =
                 IF impl = "smtp" THEN len ELSE 0]
            /\ bufferPool' = taken
            /\ buf' = [buf EXCEPT ![s] = inHand]
            /\ pc' = [pc EXCEPT ![s] = "exec"]
            /\ UNCHANGED <<reply, from, to, fromReceived, accepted, rejected,
                           auth>>
  /\ UNCHANGED <<impl, connections, conn, shouldClose, everFailed, helo,
                 didAuth, heloGiven, authGiven, delivered>>
  /\ UNCHANGED stopVars
  /\ UNCHANGED parserVars
  /\ UNCHANGED serveVars

\* the parser's loop goes round once more: NextPart fails as before, the
\* failure is logged, nothing changes
ParseLoop(s) ==
  /\ pc[s] = "parse"
  /\ UNCHANGED vars

\* the clock, while a dispatch waits for the worker
Tick(s) ==
  /\ pc[s] = "exec"
  /\ waited[s] <= DispatchTimeout
  /\ waited' = [waited EXCEPT ![s] = @ + DispatchTimeout \div 2]
  /\ UNCHANGED <<impl, connections, conn, from, to, shouldClose, pc, event,
                 result, data, reply, fromReceived, accepted, rejected,
                 everFailed>>
  /\ UNCHANGED sessionVars
  /\ UNCHANGED pluginVars
  /\ UNCHANGED parserVars
  /\ UNCHANGED serveVars

\* pool.Exec returns with the worker's reply or an error, and Session.Data
\* runs to its end; the connection answers and resets the transaction
DataReply(s, res) ==
  /\ pc[s] = "exec"
  /\ result' = [result EXCEPT ![s] = res]
  /\ pc' = [pc EXCEPT ![s] = "idle"]
  /\ LET r == Verdict(s, res) IN
       /\ Replied(s, "DATA", r.ret)
       /\ delivered' = [delivered EXCEPT ![s] =
            @ \/ toSMTPStatus(r.ret) = 250]
       /\ shouldClose' = [shouldClose EXCEPT ![s] = @ \/ r.close]
       /\ data' = [data EXCEPT ![s].close = r.close,
                               ![s].puts = IF impl = "backend" THEN 1 ELSE 0,
                               ![s].bufPuts = IF buf[s].held THEN 1 ELSE 0]
       /\ everFailed' = [everFailed EXCEPT ![s] =
            @ \/ (impl = "backend" /\ Exec(res).err)
              \/ (impl = "smtp" /\ sendToWorker(res).err)]
  /\ waited' = [waited EXCEPT ![s] = 0]
  /\ SessionReset(s)
  /\ authGiven' = [authGiven EXCEPT ![s].fresh = FALSE]
  /\ mu' = [mu EXCEPT !.readers = @ \ {s}]
  /\ payloadPool' = IF impl = "backend" THEN Put(payloadPool, pld[s])
                                        ELSE payloadPool
  /\ pld' = [pld EXCEPT ![s] = NewPayload]
  /\ bufferPool' = IF buf[s].held THEN PutBuffer(bufferPool, buf[s].len)
                                  ELSE bufferPool
  /\ buf' = [buf EXCEPT ![s] = NoBuffer]
  /\ UNCHANGED <<impl, connections, conn, event, helo, didAuth, heloGiven>>
  /\ UNCHANGED stopVars
  /\ UNCHANGED parserVars
  /\ UNCHANGED serveVars

\* RSET: Session.Reset
Reset(s) ==
  /\ conn[s] = "open" /\ pc[s] = "idle"
  /\ SessionReset(s)
  /\ Replied(s, "RSET", NilError)
  /\ NotData(s)
  /\ UNCHANGED <<impl, connections, conn, shouldClose, pc, waited, everFailed,
                 helo, didAuth, heloGiven, authGiven, delivered>>
  /\ UNCHANGED pluginVars
  /\ UNCHANGED parserVars
  /\ UNCHANGED serveVars

\* QUIT or the socket closing, by the client or by the server's Close:
\* Session.Logout
Logout(s) ==
  /\ conn[s] \in {"open", "dropped"} /\ pc[s] = "idle"
  /\ connections' = Delete(connections, s)
  /\ conn' = [conn EXCEPT ![s] = "closed"]
  /\ Replied(s, "QUIT", SMTPError(221))
  /\ NotData(s)
  /\ UNCHANGED <<impl, from, to, shouldClose, pc, waited, fromReceived,
                 accepted, rejected, everFailed>>
  /\ UNCHANGED sessionVars
  /\ UNCHANGED pluginVars
  /\ UNCHANGED parserVars
  /\ UNCHANGED serveVars

Next ==
  \E s \in Solo :
    \/ \E h \in Hosts : NewSession(s, h)
    \/ \E mech \in Mechanisms, cred \in Credentials : Auth(s, mech, cred)
    \/ \E a \in Addrs : Mail(s, a)
    \/ \E a \in Addrs : RcptTo(s, a)
    \/ \E len \in 1..MaxBody, readErr \in BOOLEAN, msg \in MsgKinds :
         DataRead(s, len, readErr, msg)
    \/ DataRefused(s)
    \/ ParseLoop(s)
    \/ Tick(s)
    \/ \E res \in PoolResults : DataReply(s, res)
    \/ Reset(s)
    \/ Logout(s)

Spec == Init /\ [][Next]_vars

\* ------------------------------------------------------- the plugin's Stop

allSessionVars == <<connections, conn, from, to, shouldClose, pc, event,
                    result, waited, data, reply, fromReceived, accepted,
                    rejected, everFailed, helo, auth, emailData, didAuth,
                    heloGiven, authGiven, delivered, payloadPool, pld,
                    bufferPool, buf>>

\* Plugin.Stop is called with a context that has a deadline.
\*  backend: Stop itself goes for the write lock first
\*  smtp:    Stop starts the goroutine, which goes for the write lock, and
\*           waits in its select
StopCall ==
  /\ stopPc = "idle"
  /\ stopPc' = IF impl = "backend" THEN "lock" ELSE "select"
  /\ shutPc' = IF impl = "backend" THEN shutPc ELSE "lock"
  /\ UNCHANGED <<impl, mu, deadline, stopResult, serving, wPool, doneCh>>
  /\ UNCHANGED allSessionVars
  /\ UNCHANGED parserVars
  /\ UNCHANGED serveVars

\* package backend's Stop gets the write lock, starts the goroutine and
\* waits in its select
StopLock ==
  /\ impl = "backend" /\ stopPc = "lock"
  /\ LockFree
  /\ mu' = [mu EXCEPT !.writer = "Stop"]
  /\ stopPc' = "select"
  /\ shutPc' = "servers"
  /\ UNCHANGED <<impl, deadline, stopResult, serving, wPool, doneCh>>
  /\ UNCHANGED allSessionVars
  /\ UNCHANGED parserVars
  /\ UNCHANGED serveVars

\* package smtp's goroutine gets the write lock
ShutLock ==
  /\ impl = "smtp" /\ shutPc = "lock"
  /\ LockFree
  /\ mu' = [mu EXCEPT !.writer = "goroutine"]
  /\ shutPc' = "servers"
  /\ UNCHANGED <<impl, stopPc, deadline, stopResult, serving, wPool, doneCh>>
  /\ UNCHANGED allSessionVars
  /\ UNCHANGED parserVars
  /\ UNCHANGED serveVars

\* whether Stop's goroutine ends the cleanup.
\*  backend: close(p.cleanupStop) and p.cleanupTicker.Stop(), when the
\*           routine was started
\*  smtp:    Stop does nothing about the routine, whose context is
\*           context.Background()
StopsCleanup(i, cleaner) == i = "backend" /\ cleaner # "none"

\* Stop's goroutine on the server n.
\*  backend: smtpServers.Range closes the servers registered by now; Close
\*           closes the listeners the server has by now
\*  smtp:    p.listener.Close() and p.smtpServer.Close(), both set by Serve
CloseServer(i, reg, n, sv) ==
  IF (i = "backend" /\ n \in reg) \/ (i = "smtp" /\ sv.pc # "none")
    THEN [pc |-> IF sv.pc = "listening" THEN "returned" ELSE sv.pc,
          closed |-> TRUE]
    ELSE sv

\* the goroutine closes the listener and the SMTP server(s); the server's
\* Close closes the sockets of its connections, whose sessions log out
\* when their handlers notice
CloseServers ==
  /\ shutPc = "servers"
  /\ shutPc' = "pool"
  /\ srv' = [n \in Servers |-> CloseServer(impl, smtpServers, n, srv[n])]
  /\ serving' = \E n \in Servers : srv'[n].pc = "listening"
  /\ conn' = [s \in Sessions |->
                IF conn[s] = "open" THEN "dropped" ELSE conn[s]]
  /\ UNCHANGED <<impl, mu, stopPc, deadline, stopResult, wPool, doneCh>>
  /\ UNCHANGED <<connections, from, to, shouldClose, pc, event, result,
                 waited, data, reply, fromReceived, accepted, rejected,
                 everFailed, helo, auth, emailData, didAuth, heloGiven,
                 authGiven, delivered, payloadPool, pld, bufferPool, buf>>
  /\ UNCHANGED parserVars
  /\ cleanupStop' = (cleanupStop \/ StopsCleanup(impl, cleanerPc))
  /\ UNCHANGED <<resets, smtpServers, op, workers, modTime, gone, cleanerPc,
                 nextTick, tickPending>>

\* the goroutine destroys the worker pool, if there is one
DestroyPool ==
  /\ shutPc = "pool"
  /\ shutPc' = "signal"
  /\ wPool' = IF wPool = "nil" THEN "nil" ELSE "destroyed"
  /\ UNCHANGED <<impl, mu, stopPc, deadline, stopResult, serving, doneCh>>
  /\ UNCHANGED allSessionVars
  /\ UNCHANGED parserVars
  /\ UNCHANGED serveVars

\* the goroutine sends on doneCh, which has room for the one value, and
\* ends; package smtp's goroutine gives the write lock back as it ends
Signal ==
  /\ shutPc = "signal"
  /\ doneCh < 1
  /\ doneCh' = doneCh + 1
  /\ shutPc' = "done"
  /\ mu' = [mu EXCEPT !.writer = IF impl = "smtp" THEN "none" ELSE @]
  /\ UNCHANGED <<impl, stopPc, deadline, stopResult, serving, wPool>>
  /\ UNCHANGED allSessionVars
  /\ UNCHANGED parserVars
  /\ UNCHANGED serveVars

\* the deadline of the context given to Stop passes
Expire ==
  /\ stopPc \in {"lock", "select"}
  /\ ~deadline
  /\ deadline' = TRUE
  /\ UNCHANGED <<impl, mu, stopPc, shutPc, stopResult, serving, wPool,
                 doneCh>>
  /\ UNCHANGED allSessionVars
  /\ UNCHANGED parserVars
  /\ UNCHANGED serveVars

\* Stop's select takes a case that is ready and Stop returns; package
\* backend's Stop gives the write lock back as it returns
StopReturn(r) ==
  /\ stopPc = "select"
  /\ \/ r = "deadline" /\ deadline /\ UNCHANGED doneCh
     \/ r = "nil" /\ doneCh = 1 /\ doneCh' = 0
  /\ stopResult' = r
  /\ stopPc' = "returned"
  /\ mu' = [mu EXCEPT !.writer = IF impl = "backend" THEN "none" ELSE @]
  /\ UNCHANGED <<impl, shutPc, deadline, serving, wPool>>
  /\ UNCHANGED allSessionVars
  /\ UNCHANGED parserVars
  /\ UNCHANGED serveVars

\* how Plugin.Reset ends.
\*  backend: p.wPool.Reset with no look at p.wPool
\*  smtp:    nil at once when p.wPool is nil
ResetResult(i, pool) ==
  IF pool = "nil" THEN (IF i = "smtp" THEN "nil" ELSE "panic")
  ELSE IF pool = "alive" THEN "nil" ELSE "error"

\* Plugin.Reset: with the write lock, wPool.Reset.  It waits in Lock while
\* another holds the lock, for reading or for writing
PluginReset ==
  /\ LockFree
  /\ wPool \in {"nil", "alive"}
  /\ op.result # "panic"
  /\ resets < MaxResets
  /\ op' = [name |-> "Reset", result |-> ResetResult(impl, wPool), arg |-> 0]
  /\ resets' = IF wPool = "alive" THEN resets + 1 ELSE resets
  /\ UNCHANGED <<impl, mu, srv, smtpServers, workers>>
  /\ UNCHANGED cleanupVars
  /\ UNCHANGED stopVars
  /\ UNCHANGED allSessionVars
  /\ UNCHANGED parserVars

\* the sessions of PluginSpec: each client sends one recipient per message
\* and a one-byte body that parses
OneMessage(s) ==
  \/ \E h \in Hosts : NewSession(s, h)
  \/ Mail(s, "a@x")
  \/ Len(to[s]) = 0 /\ RcptTo(s, "a@x")
  \/ DataRead(s, 1, FALSE, "plain")
  \/ \E res \in {r \in PoolResults : ~r.stream /\ r.ctx \in {CONTINUE, CLOSE, ""}} :
       DataReply(s, res)
  \/ Logout(s)

NextPlugin ==
  \/ \E s \in Sessions : OneMessage(s)
  \/ StopCall
  \/ StopLock
  \/ ShutLock
  \/ CloseServers
  \/ DestroyPool
  \/ Signal
  \/ Expire
  \/ \E r \in {"nil", "deadline"} : StopReturn(r)
  \/ PluginReset

PluginSpec == Init /\ [][NextPlugin]_vars

\* ------------------------------------------------- the servers' start

\* package backend's serveServer builds its server and stores it in
\* smtpServers
Register(n) ==
  /\ impl = "backend"
  /\ srv[n].pc = "spawned"
  /\ srv' = [srv EXCEPT ![n].pc = "registered"]
  /\ smtpServers' = smtpServers \cup {n}
  /\ UNCHANGED <<impl, mu, resets, op, workers>>
  /\ UNCHANGED cleanupVars
  /\ UNCHANGED stopVars
  /\ UNCHANGED allSessionVars
  /\ UNCHANGED parserVars

\* the server begins to accept connections.
\*  backend: s.ListenAndServe() opens a listener of its own and accepts on
\*           it, closed before or not
\*  smtp:    p.smtpServer.Serve(p.listener) returns at once when Stop has
\*           closed the listener
Listen(n) ==
  /\ srv[n].pc = "registered"
  /\ srv' = [srv EXCEPT ![n].pc =
       IF impl = "smtp" /\ srv[n].closed THEN "returned" ELSE "listening"]
  /\ serving' = (\E m \in Servers : srv'[m].pc = "listening")
  /\ UNCHANGED <<impl, mu, resets, smtpServers, op, workers>>
  /\ UNCHANGED cleanupVars
  /\ UNCHANGED <<stopPc, shutPc, deadline, stopResult, wPool, doneCh>>
  /\ UNCHANGED allSessionVars
  /\ UNCHANGED parserVars

\* the plugin as Serve returns: package backend has started a goroutine per
\* server, package smtp has its server and its listener and has started
\* the goroutine that will serve on it
InitServe ==
  /\ InitEnvelope
  /\ InitStop
  /\ serving = FALSE
  /\ wPool = "alive"
  /\ resets = 0
  /\ srv = [n \in Servers |->
             IF impl = "backend" THEN [pc |-> "spawned", closed |-> FALSE]
             ELSE IF n = "a" THEN [pc |-> "registered", closed |-> FALSE]
             ELSE NoServer]
  /\ smtpServers = {}
  /\ op = NoOp
  /\ workers = 1
  /\ InitNoCleanup
  /\ InitNoParse

NextServe ==
  \/ \E n \in Servers : Register(n)
  \/ \E n \in Servers : Listen(n)
  \/ \E s \in Sessions, h \in Hosts : NewSession(s, h)
  \/ \E s \in Sessions : Logout(s)
  \/ StopCall
  \/ StopLock
  \/ ShutLock
  \/ CloseServers
  \/ DestroyPool
  \/ Signal
  \/ Expire
  \/ \E r \in {"nil", "deadline"} : StopReturn(r)

ServeSpec == InitServe /\ [][NextServe]_vars

\* ----------------------------------------------- the operational calls

\* how Plugin.AddWorker and Plugin.RemoveWorker end.
\*  backend: p.wPool.AddWorker() with no look at p.wPool
\*  smtp:    the error "worker pool not initialized" when p.wPool is nil
WorkerOpResult(i, pool) ==
  IF pool = "nil" THEN (IF i = "smtp" THEN "error" ELSE "panic")
  ELSE IF pool = "alive" THEN "nil" ELSE "error"

\* how a dispatch ends that is made with the pool as it is and a worker
\* that replies.
\*  backend: Plugin.Exec calls p.wPool.Exec with no look at p.wPool
\*  smtp:    sendToWorker returns an error when the pool handle is nil
DispatchResult(i, pool) ==
  IF pool = "nil" THEN (IF i = "smtp" THEN "error" ELSE "panic")
  ELSE IF pool = "alive" THEN "nil" ELSE "error"

\* Serve creates the worker pool
NewPool ==
  /\ wPool = "nil"
  /\ op.result # "panic"
  /\ wPool' = "alive"
  /\ UNCHANGED <<impl, mu, stopPc, shutPc, deadline, stopResult, serving,
                 doneCh>>
  /\ UNCHANGED allSessionVars
  /\ UNCHANGED parserVars
  /\ UNCHANGED serveVars

AddWorker ==
  /\ RLockFree
  /\ op.result # "panic"
  /\ workers < MaxWorkers
  /\ op' = [name |-> "AddWorker", result |-> WorkerOpResult(impl, wPool),
            arg |-> 0]
  /\ workers' = IF wPool = "alive" THEN workers + 1 ELSE workers
  /\ UNCHANGED <<impl, mu, resets, srv, smtpServers>>
  /\ UNCHANGED cleanupVars
  /\ UNCHANGED stopVars
  /\ UNCHANGED allSessionVars
  /\ UNCHANGED parserVars

RemoveWorker ==
  /\ RLockFree
  /\ op.result # "panic"
  /\ workers > 1
  /\ op' = [name |-> "RemoveWorker", result |-> WorkerOpResult(impl, wPool),
            arg |-> 0]
  /\ workers' = IF wPool = "alive" THEN workers - 1 ELSE workers
  /\ UNCHANGED <<impl, mu, resets, srv, smtpServers>>
  /\ UNCHANGED cleanupVars
  /\ UNCHANGED stopVars
  /\ UNCHANGED allSessionVars
  /\ UNCHANGED parserVars

\* Plugin.Exec / sendToWorker called with an event, the worker replying
Dispatch ==
  /\ RLockFree
  /\ op.result # "panic"
  /\ op' = [name |-> "Exec", result |-> DispatchResult(impl, wPool),
            arg |-> 0]
  /\ UNCHANGED <<impl, mu, resets, srv, smtpServers, workers>>
  /\ UNCHANGED cleanupVars
  /\ UNCHANGED stopVars
  /\ UNCHANGED allSessionVars
  /\ UNCHANGED parserVars

\* the plugin after Init, before Serve: no worker pool, no server
InitOps ==
  /\ InitEnvelope
  /\ InitStop
  /\ serving = FALSE
  /\ wPool = "nil"
  /\ resets = 0
  /\ srv = [n \in Servers |-> NoServer]
  /\ smtpServers = {}
  /\ op = NoOp
  /\ workers = 1
  /\ InitNoCleanup
  /\ InitNoParse

NextOps ==
  \/ NewPool
  \/ PluginReset
  \/ AddWorker
  \/ RemoveWorker
  \/ Dispatch
  \/ StopCall
  \/ StopLock
  \/ ShutLock
  \/ CloseServers
  \/ DestroyPool
  \/ Signal
  \/ Expire
  \/ \E r \in {"nil", "deadline"} : StopReturn(r)

OpsSpec == InitOps /\ [][NextOps]_vars

\* ------------------------------------------------- the close-session RPC

\* the close-session RPC on the id u: what it returns, whether it removes
\* the id from the registry and whether it closes the connection.
\*  backend: rpc.CloseSession removes the entry with LoadAndDelete and
\*           asserts that the value is a *handler.EmailEvent; the registry
\*           holds sessions, so the assertion panics; nothing closes the
\*           connection
\*  smtp:    rpc.CloseConnection closes the connection of the session and
\*           deletes the entry; an unknown id is an error
CloseSessionResult(i, reg, u) ==
  IF u \notin reg
    THEN [ret |-> "false", delete |-> FALSE, close |-> FALSE]
  ELSE IF i = "backend"
    THEN [ret |-> "panic", delete |-> TRUE, close |-> FALSE]
    ELSE [ret |-> "true", delete |-> TRUE, close |-> TRUE]

\* the RPC is called with the id of session u, tracked or not.  A panic in
\* the RPC handler ends the process, and every connection with it
CloseSession(u) ==
  /\ op.result # "panic"
  /\ LET r == CloseSessionResult(impl, connections, u) IN
       /\ op' = [name |-> "CloseSession", result |-> r.ret, arg |-> u]
       /\ IF r.ret = "panic"
            THEN /\ connections' = {}
                 /\ conn' = [s \in Sessions |->
                               IF conn[s] = "new" THEN "new" ELSE "closed"]
                 /\ pc' = [s \in Sessions |-> "idle"]
                 /\ serving' = FALSE
                 /\ mu' = [writer |-> "none", readers |-> {}]
                 /\ pld' = [s \in Sessions |-> NewPayload]
                 /\ buf' = [s \in Sessions |-> NoBuffer]
            ELSE /\ connections' = IF r.delete THEN Delete(connections, u)
                                               ELSE connections
                 /\ conn' = [conn EXCEPT ![u] =
                      IF r.close /\ @ = "open" THEN "dropped" ELSE @]
                 /\ UNCHANGED <<pc, serving, mu, pld, buf>>
  /\ UNCHANGED <<impl, from, to, shouldClose, event, result, waited, data,
                 reply, fromReceived, accepted, rejected, everFailed>>
  /\ UNCHANGED sessionVars
  /\ UNCHANGED <<stopPc, shutPc, deadline, stopResult, wPool, doneCh,
                 payloadPool, bufferPool>>
  /\ UNCHANGED <<resets, srv, smtpServers, workers>>
  /\ UNCHANGED cleanupVars
  /\ UNCHANGED parserVars

NextRpc ==
  \E s \in Sessions :
    \/ OneMessage(s)
    \/ CloseSession(s)

RpcSpec == Init /\ [][NextRpc]_vars

\* ------------------------------------------------- the temp-file cleanup

\* the period of the cleanup ticker: half of cleanup_after in
\* startTempFileCleanup (backend), cleanup_after in startCleanupRoutine
Period(i) == IF i = "backend" THEN CleanupAfter \div 2 ELSE CleanupAfter

\* a pass removing the files that have reached half of cleanup_after
RemovesEarly(m, now) == now - m >= CleanupAfter \div 2

\* whether a pass at time now removes a file modified at time m:
\* now.Sub(info.ModTime()) > maxAge (backend), 
\* info.ModTime().Before(now - cleanup_after) (smtp)
Removes(m, now) == now - m > CleanupAfter

\* the parser writes an attachment to a file of its own in the temp
\* directory
WriteTempFile ==
  /\ serving
  /\ nextId < MaxFiles
  /\ LET path == TempPath(1, nextId + 1, <<"f.txt">>) IN
       /\ files' = files \cup {path}
       /\ clobbered' = (clobbered \/ path \in files)
       /\ modTime' = [f \in files \cup {path} |->
                        IF f = path THEN clock ELSE modTime[f]]
  /\ nextId' = nextId + 1
  /\ UNCHANGED <<pmsg, pmode, pauth, puuid, pst, clock>>
  /\ UNCHANGED <<resets, srv, smtpServers, op, workers, gone, cleanerPc,
                 nextTick, tickPending, cleanupStop>>
  /\ UNCHANGED <<impl, mu>> /\ UNCHANGED allSessionVars /\ UNCHANGED stopVars

\* time goes on by one tick of the clock; the ticker fires when its time
\* has come, unless stopped.  A running routine takes a tick before the
\* clock goes on
TimePasses ==
  /\ clock < MaxTime
  /\ ~(tickPending /\ cleanerPc = "running")
  /\ clock' = clock + 1
  /\ IF clock + 1 = nextTick /\ ~cleanupStop /\ cleanerPc # "none"
       THEN /\ tickPending' = TRUE
            /\ nextTick' = nextTick + Period(impl)
       ELSE UNCHANGED <<tickPending, nextTick>>
  /\ UNCHANGED <<pmsg, pmode, pauth, puuid, pst, files, clobbered, nextId>>
  /\ UNCHANGED <<resets, srv, smtpServers, op, workers, modTime, gone,
                 cleanerPc, cleanupStop>>
  /\ UNCHANGED <<impl, mu>> /\ UNCHANGED allSessionVars /\ UNCHANGED stopVars

\* the routine takes the tick: cleanupTempFiles removes the files that
\* are old enough
CleanupPass ==
  /\ cleanerPc = "running"
  /\ tickPending
  /\ tickPending' = FALSE
  /\ LET old == {f \in files : Removes(modTime[f], clock)} IN
       /\ files' = files \ old
       /\ modTime' = [f \in files \ old |-> modTime[f]]
       /\ gone' = gone \cup {[path |-> f, age |-> clock - modTime[f]] :
                                f \in old}
  /\ UNCHANGED <<pmsg, pmode, pauth, puuid, pst, clobbered, nextId, clock>>
  /\ UNCHANGED <<resets, srv, smtpServers, op, workers, cleanerPc, nextTick,
                 cleanupStop>>
  /\ UNCHANGED <<impl, mu>> /\ UNCHANGED allSessionVars /\ UNCHANGED stopVars

\* the routine's select takes the case that ends it.
\*  backend: <-p.cleanupStop, once closed
\*  smtp:    <-ctx.Done() of context.Background(), which is never done
CleanerReturn ==
  /\ cleanerPc = "running"
  /\ impl = "backend" /\ cleanupStop
  /\ cleanerPc' = "returned"
  /\ UNCHANGED parserVars
  /\ UNCHANGED <<resets, srv, smtpServers, op, workers, modTime, gone,
                 nextTick, tickPending, cleanupStop>>
  /\ UNCHANGED <<impl, mu>> /\ UNCHANGED allSessionVars /\ UNCHANGED stopVars

\* the plugin after Serve in tempfile mode: the cleanup routine runs
InitCleanup ==
  /\ InitEnvelope
  /\ InitStop
  /\ serving = TRUE
  /\ wPool = "alive"
  /\ InitListening
  /\ modTime = << >>
  /\ gone = {}
  /\ cleanerPc = "running"
  /\ nextTick = Period(impl)
  /\ tickPending = FALSE
  /\ cleanupStop = FALSE
  /\ pmsg = PlainMessage
  /\ pmode = "tempfile"
  /\ pauth = FALSE
  /\ puuid = [p \in Parsers |-> p]
  /\ pst = [p \in Parsers |-> IdleParse]
  /\ files = {}
  /\ clobbered = FALSE
  /\ nextId = 0
  /\ clock = 0

NextCleanup ==
  \/ WriteTempFile
  \/ TimePasses
  \/ CleanupPass
  \/ CleanerReturn
  \/ StopCall
  \/ StopLock
  \/ ShutLock
  \/ CloseServers
  \/ DestroyPool
  \/ Signal
  \/ Expire
  \/ \E r \in {"nil", "deadline"} : StopReturn(r)

CleanupSpec == InitCleanup /\ [][NextCleanup]_vars

\* ------------------------------------------------------------ the parser

\* ParseEmail / parseEmail begins: the event is built with the time of
\* day, and a message without Content-Type is done with its body read
ParseStart(p) ==
  /\ pst[p].pc = "idle"
  /\ clock' = clock + 1
  /\ pst' = [pst EXCEPT ![p] =
       [IdleParse EXCEPT
          !.pc = IF pmsg.top = "plain" THEN "done" ELSE "parts",
          !.idx = 1,
          !.body = IF pmsg.top = "plain"
                     THEN <<[part |-> 1, decoded |-> FALSE]>> ELSE << >>,
          !.receivedAt = clock + 1,
          !.authentication = pauth]]
  /\ UNCHANGED <<pmsg, pmode, pauth, puuid, files, clobbered, nextId>>
  /\ UNCHANGED <<impl, mu>> /\ UNCHANGED allSessionVars /\ UNCHANGED stopVars
  /\ UNCHANGED serveVars

\* one round of the loop over mr.NextPart(): io.EOF ends the parse; a part
\* is taken as an attachment, in tempfile mode written to a file of its
\* own, or as body content
NextPart(p) ==
  /\ pst[p].pc = "parts"
  /\ LET st == pst[p]
         k == st.idx
     IN
       IF k > Len(pmsg.parts)
         THEN /\ pst' = [pst EXCEPT ![p] = Finish(impl, st)]
              /\ UNCHANGED <<files, clobbered, nextId>>
       ELSE IF IsAttachment(impl, pmsg.parts[k])
         THEN LET q == pmsg.parts[k]
                  name == IF q.filename # "" THEN <<q.filename>>
                          ELSE FallbackName(impl, Len(st.attachments))
                  path == TempPath(puuid[p], nextId + 1, name)
                  a == ExtractAttachment(impl, q, k, name, pmode, path)
              IN /\ pst' = [pst EXCEPT ![p] =
                      [st EXCEPT !.idx = k + 1,
                                 !.attachments = Append(@, a),
                                 !.asAttachment = Append(@, TRUE)]]
                 /\ IF pmode = "tempfile"
                      THEN /\ files' = files \cup {path}
                           /\ clobbered' = (clobbered \/ path \in files)
                           /\ nextId' = nextId + 1
                      ELSE UNCHANGED <<files, clobbered, nextId>>
       ELSE /\ pst' = [pst EXCEPT ![p] =
                 [BodyPart(impl, st, pmsg.parts[k], k) EXCEPT
                    !.idx = k + 1,
                    !.asAttachment = Append(@, FALSE)]]
            /\ UNCHANGED <<files, clobbered, nextId>>
  /\ UNCHANGED <<pmsg, pmode, pauth, puuid, clock>>
  /\ UNCHANGED <<impl, mu>> /\ UNCHANGED allSessionVars /\ UNCHANGED stopVars
  /\ UNCHANGED serveVars

\* one parse of one message, in either storage mode
InitParser ==
  /\ InitSessions
  /\ pmsg \in Messages
  /\ pmode \in {"memory", "tempfile"}
  /\ pauth \in BOOLEAN
  /\ puuid = [p \in Parsers |-> p]
  /\ pst = [p \in Parsers |-> IdleParse]
  /\ files = {}
  /\ clobbered = FALSE
  /\ nextId = 0
  /\ clock = 0

NextParser == ParseStart(1) \/ NextPart(1)

ParserSpec == InitParser /\ [][NextParser]_vars

\* two parses of the same raw bytes side by side, by one session or by two
InitTemp ==
  /\ InitSessions
  /\ pmsg \in SharedMessages
  /\ pmode \in {"memory", "tempfile"}
  /\ pauth = FALSE
  /\ puuid \in {[p \in Parsers |-> 1], [p \in Parsers |-> p]}
  /\ pst = [p \in Parsers |-> IdleParse]
  /\ files = {}
  /\ clobbered = FALSE
  /\ nextId = 0
  /\ clock = 0

NextTemp == \E p \in Parsers : ParseStart(p) \/ NextPart(p)

TempSpec == InitTemp /\ [][NextTemp]_vars

\* ------------------------------------------------------------- the claims

\* the latest command of s was a DATA command, answered
DataAnswered(s) == reply[s].cmd = "DATA" /\ pc[s] = "idle"

\* the DATA command of s was dispatched and the worker's reply came back
\* without the streaming flag
WorkerReplied(s) ==
  /\ DataAnswered(s) /\ data[s].submits = 1
  /\ result[s].kind = "ok" /\ ~result[s].stream

\* the dispatch of the DATA command of s failed
DispatchFailed(s) ==
  /\ DataAnswered(s) /\ data[s].submits = 1
  /\ IF impl = "backend" THEN Exec(result[s]).err
                         ELSE sendToWorker(result[s]).err

\* C1: when the worker's verdict for a DATA command is CLOSE, the command
\* is answered with 421 and not with 250.
C1_CloseAnswered421 ==
  \A s \in Sessions :
    (WorkerReplied(s) /\ result[s].ctx = CLOSE) => reply[s].code = 421

\* C2: every worker reply whose metadata is not exactly CLOSE has the DATA
\* command accepted with 250, the connection open, the session tracked and
\* no close verdict taken; a close verdict (421, or shouldClose set by this
\* reply) is taken only for the exact bytes CLOSE.  Replies carrying the
\* streaming flag are the subject of C8.
C2_OnlyExactCloseCloses ==
  \A s \in Sessions :
    /\ (WorkerReplied(s) /\ result[s].ctx # CLOSE) =>
         /\ reply[s].code = 250
         /\ conn[s] = "open" /\ s \in connections
         /\ ~data[s].close
    /\ (DataAnswered(s) /\ (reply[s].code = 421 \/ data[s].close)) =>
         result[s].ctx = CLOSE

C2_Witness ==
  \E s \in Sessions :
    /\ WorkerReplied(s) /\ result[s].ctx = "close" /\ reply[s].code = 250

\* C3: a DATA body whose length reaches max_message_size (the exact size
\* included) is answered with 552, with neither parser nor worker invoked.
C3_TooLarge552 ==
  \A s \in Sessions :
    (DataAnswered(s) /\ ~data[s].readErr /\ data[s].len >= MaxMessageSize) =>
      /\ reply[s].code = 552
      /\ ~data[s].parsed /\ data[s].submits = 0

\* C4: when the parser returns an error for the DATA body, the command is
\* answered with 554 and the worker is not invoked.
C4_ParseError554 ==
  \A s \in Sessions :
    (DataAnswered(s) /\ data[s].parsed /\ ParseFails(impl, data[s].msg)) =>
      /\ reply[s].code = 554
      /\ data[s].submits = 0 /\ ~event[s].present

C4_Witness ==
  \E s \in Sessions :
    /\ DataAnswered(s) /\ data[s].parsed /\ data[s].msg = "malformed"
    /\ reply[s].code = 554

\* C5: when the dispatcher fails, the DATA command is answered with 451,
\* the connection stays open, the session stays in the registry, and the
\* session accepts a further MAIL FROM.
C5_DispatchFailure451 ==
  \A s \in Sessions :
    DispatchFailed(s) =>
      /\ reply[s].code = 451
      /\ conn[s] = "open" /\ s \in connections
      /\ ENABLED Mail(s, "a@x")

\* a message accepted with 250 on a session whose earlier dispatch failed
C5_Witness ==
  \E s \in Sessions :
    /\ everFailed[s] /\ WorkerReplied(s) /\ reply[s].code = 250
    /\ s \in connections

\* C6: when reading the DATA body fails for a reason other than the size
\* limit, the command is answered with 451 and neither parser nor worker is
\* invoked.
C6_ReadError451 ==
  \A s \in Sessions :
    (DataAnswered(s) /\ data[s].readErr) =>
      /\ reply[s].code = 451
      /\ ~data[s].parsed /\ data[s].submits = 0

\* C7: a dispatch never waits longer than 30 seconds for the worker: no
\* DATA command is still waiting in the dispatch after that time.
C7_DispatchBounded ==
  \A s \in Sessions : pc[s] = "exec" => waited[s] <= DispatchTimeout

\* C8: a worker reply carrying the streaming flag is rejected: the DATA
\* command is answered with 451 and the metadata is not taken as a verdict.
C8_StreamRejected ==
  \A s \in Sessions :
    (DataAnswered(s) /\ data[s].submits = 1
       /\ result[s].kind = "ok" /\ result[s].stream) =>
      /\ reply[s].code = 451
      /\ ~data[s].close

\* C9: the recipient list never has more than max_recipients entries: it
\* holds the addresses answered 250, and a RCPT TO is answered 452 exactly
\* on a full list, which it leaves unchanged.
C9_RecipientCap ==
  \A s \in Sessions :
    /\ Len(to[s]) <= MaxRecipients
    /\ to[s] = accepted[s]
    /\ (reply[s].cmd = "RCPT" /\ reply[s].code = 452) =>
         Len(to[s]) = MaxRecipients

\* C10: the event dispatched for a DATA command carries the session's
\* current MAIL FROM and exactly the RCPT TO addresses answered 250 since
\* the last reset, in order; an address answered 452 is not added.
C10_EventEchoesEnvelope ==
  \A s \in Sessions :
    pc[s] = "exec" =>
      /\ event[s].present
      /\ event[s].from = from[s]
      /\ event[s].to = to[s]
      /\ event[s].to = accepted[s]

\* a DATA accepted after a 452, with the accepted recipients in the event
C10_Witness ==
  \E s \in Sessions :
    /\ WorkerReplied(s) /\ reply[s].code = 250 /\ data[s].after452
    /\ Len(event[s].to) = MaxRecipients

\* C11: after RSET, whatever the session did before, the session has an
\* empty from, no recipients, auth-attempted false with username, password
\* and mechanism cleared, and an empty body buffer.
C11_RsetZeroesSession ==
  \A s \in Sessions :
    reply[s].cmd = "RSET" =>
      /\ from[s] = "" /\ to[s] = << >>
      /\ auth[s] = NoAuth
      /\ emailData[s] = 0

\* an RSET on a connection whose AUTH had succeeded
C11_Witness ==
  \E s \in Sessions : reply[s].cmd = "RSET" /\ didAuth[s]

\* the authentication record of the client's latest AUTH command
GivenAuth(s) ==
  [attempted |-> TRUE, mechanism |-> authGiven[s].mechanism,
   username |-> authGiven[s].username, password |-> authGiven[s].password]

\* C12: AUTH, PLAIN or LOGIN, succeeds for every username and password,
\* and the next event of the session carries the authentication record
\* with attempted true, the mechanism the client used and the username and
\* password given; with no AUTH issued the event carries no record.
C12_AuthRecorded ==
  \A s \in Sessions :
    /\ reply[s].cmd = "AUTH" => reply[s].code = 235
    /\ (event[s].present /\ authGiven[s].issued /\ authGiven[s].fresh) =>
         event[s].auth = GivenAuth(s)
    /\ (event[s].present /\ ~authGiven[s].issued) => event[s].auth = NoAuth

\* C13: once an AUTH of the session has succeeded, every later event of
\* the session carries the authentication record, after an RSET and after
\* an earlier message as well.
C13_AuthOutlivesReset ==
  \A s \in Sessions :
    (event[s].present /\ didAuth[s]) => event[s].auth = GivenAuth(s)

\* C14: the helo of an event's envelope is the hostname the client gave in
\* HELO/EHLO.
C14_EventCarriesHelo ==
  \A s \in Sessions : event[s].present => event[s].helo = heloGiven[s]

\* C15: under every interleaving of the sessions, the registry holds
\* exactly the sessions accepted and not yet logged out; the insert and
\* the delete of one session leave the entry of the other alone.
C15_RegistryExact ==
  connections = {s \in Sessions : conn[s] \in {"open", "dropped"}}

\* one session has logged out while the other, tracked, waits for its worker
C15_Witness ==
  \E s \in Sessions, t \in Sessions :
    /\ s # t /\ conn[s] = "closed"
    /\ t \in connections /\ pc[t] = "exec"

\* C16: after the worker's CLOSE for a DATA command has been answered, the
\* server has ended the connection: it is not left open for more commands
\* until the client quits.
C16_CloseEndsConnection ==
  \A s \in Sessions :
    (WorkerReplied(s) /\ result[s].ctx = CLOSE) => conn[s] # "open"

\* C17: once the deadline has passed, Stop is not held up by anything: it
\* can get on to its select or return from it; a return with the deadline
\* error comes only after the deadline; and the goroutine's send on doneCh
\* never blocks.
C17_StopNotHeldUp ==
  /\ (deadline /\ stopPc \in {"lock", "select"}) =>
       (ENABLED StopLock \/ ENABLED StopReturn("deadline"))
  /\ stopResult = "deadline" => deadline
  /\ shutPc = "signal" => ENABLED Signal

\* C18: the shutdown steps run under the plugin's write lock, and the
\* worker pool is destroyed only after the listener and server(s) were
\* closed.
C18_ShutdownLockedInOrder ==
  /\ shutPc \in {"servers", "pool", "signal"} => mu.writer # "none"
  /\ wPool = "destroyed" => ~serving

\* C19: with the dispatches of several sessions in flight, each DATA
\* command is answered by the verdict its own dispatch returned, in
\* whatever order the replies come: 421 and shouldClose only on the
\* session's own CLOSE, and a session waiting for its worker stays open and
\* tracked while another is answered.
C19_OwnVerdict ==
  \A s \in Sessions :
    /\ (DataAnswered(s) /\ data[s].submits = 1) =>
         /\ reply[s].code = toSMTPStatus(AfterDispatch(impl, result[s]).ret)
         /\ data[s].close = AfterDispatch(impl, result[s]).close
         /\ (reply[s].code = 421 \/ data[s].close) => result[s].ctx = CLOSE
    /\ (pc[s] = "exec" /\ serving) => (conn[s] = "open" /\ s \in connections)

\* a session still waits for its worker while the other has its CLOSE
C19_Witness ==
  \E s \in Sessions, t \in Sessions :
    /\ s # t /\ pc[s] = "exec" /\ serving
    /\ WorkerReplied(t) /\ result[t].ctx = CLOSE

\* C20: an envelope taken from the pool for a dispatch has gone back to the
\* pool exactly once when the DATA command is answered, and every envelope
\* lying in the pool has context and body zeroed.
C20_EnvelopeBackZeroed ==
  /\ \A e \in payloadPool : e = NewPayload
  /\ \A s \in Sessions :
       (DataAnswered(s) /\ data[s].submits = 1) =>
         (data[s].puts = data[s].gets /\ pld[s] = NewPayload)

\* C21: the buffer a DATA command took from the byte-buffer pool has gone
\* back exactly once when the command is answered, whatever the answer,
\* and every buffer lying in the pool is empty.
C21_BufferBackReset ==
  /\ \A b \in bufferPool : b = NewBuffer
  /\ \A s \in Sessions :
       /\ DataAnswered(s) =>
            (data[s].bufPuts = data[s].bufGets /\ ~buf[s].held)
       /\ buf[s].held => pc[s] \in {"exec", "parse"}

\* a DATA command that took a buffer and was answered 552
C21_Witness ==
  \E s \in Sessions :
    /\ DataAnswered(s) /\ data[s].bufGets = 1 /\ reply[s].code = 552
    /\ bufferPool # {}

\* C26: a multipart message without a boundary parameter is a parse
\* error: its DATA command is answered 554 with nothing dispatched.
C26_NoBoundaryIs554 ==
  \A s \in Sessions :
    (data[s].parsed /\ data[s].msg = "noBoundary") =>
      /\ DataAnswered(s) /\ reply[s].code = 554
      /\ data[s].submits = 0 /\ ~event[s].present

\* C27: the parser returns on every input: no DATA command is left in the
\* parser's loop with NextPart failing again and again.
C27_ParserReturns ==
  \A s \in Sessions : pc[s] # "parse"

\* the parse p has returned its event
Parsed(p) == pst[p].pc = "done"

\* the parts of the message that parse p took as body, by media type
BodyParts(p, media) ==
  {k \in 1..Len(pmsg.parts) :
     ~pst[p].asAttachment[k] /\ pmsg.parts[k].media = media}

\* C22: the body of a parsed multipart message is one rendering, never
\* several parts put together: the content of a non-empty text/html body
\* part when there is one, otherwise that of a text/plain body part or
\* nothing.
C22_OneRendering ==
  (Parsed(1) /\ pmsg.top = "multipart") =>
    LET html == {k \in BodyParts(1, "text/html") :
                   Content(impl, pmsg.parts[k], k) # << >>}
        text == BodyParts(1, "text/plain")
    IN /\ Len(pst[1].body) <= 1
       /\ IF html # {}
            THEN \E k \in html :
                   pst[1].body = Content(impl, pmsg.parts[k], k)
            ELSE \/ pst[1].body = << >>
                 \/ \E k \in text :
                      pst[1].body = Content(impl, pmsg.parts[k], k)

\* C23: a part is taken as an attachment exactly when its disposition
\* begins with "attachment", or it has a filename and its media type is
\* neither text/plain nor text/html; an inline text part is body content.
C23_AttachmentRule ==
  \A k \in 1..Len(pst[1].asAttachment) :
    LET q == pmsg.parts[k] IN
      pst[1].asAttachment[k] <=>
        \/ q.disp = "attachment"
        \/ q.filename # "" /\ q.media \notin {"text/plain", "text/html"}

\* C24: every attachment of a parsed event has exactly one of content and
\* path populated: content in memory mode, path in tempfile mode, whatever
\* the payload, a zero-length one included.
C24_ContentXorPath ==
  \A k \in 1..Len(pst[1].attachments) :
    LET a == pst[1].attachments[k] IN
      /\ a.content <=> pmode = "memory"
      /\ a.path # NoPath <=> pmode = "tempfile"

\* C25: the JSON of a parsed event always has the key "attachments", an
\* empty array when there is none, and has the key "authentication"
\* exactly when authentication was attempted.
C25_JsonKeys ==
  Parsed(1) =>
    /\ Marshal(impl, pst[1]).attachments = "array"
    /\ Marshal(impl, pst[1]).authentication = "object" <=> pauth

\* C28: the size of every attachment is the length of its decoded
\* content; a base64 or quoted-printable payload that does not decode is
\* kept as sent, with the length as sent.
C28_SizeIsDecodedLength ==
  \A k \in 1..Len(pst[1].attachments) :
    LET a == pst[1].attachments[k]
        payload == pmsg.parts[a.part].payload
    IN a.size = IF payload.enc \in {"base64", "quoted-printable"}
                     /\ payload.valid
                  THEN payload.dec ELSE payload.raw

\* the event of parse p without the fields that may differ between two
\* parses of the same bytes: received_at and the attachments' paths
Comparable(p) ==
  [pst[p] EXCEPT
     !.receivedAt = 0,
     !.attachments = [k \in 1..Len(pst[p].attachments) |->
                        [pst[p].attachments[k] EXCEPT !.path = NoPath]]]

\* C29: two parses of the same raw bytes give events that are equal but
\* for received_at and the path of each attachment.
C29_ParseTwiceSame ==
  (Parsed(1) /\ Parsed(2)) => Comparable(1) = Comparable(2)

\* both parses are done, at different times, with attachments in files
C29_Witness ==
  /\ Parsed(1) /\ Parsed(2)
  /\ pst[1].receivedAt # pst[2].receivedAt
  /\ pst[1].body # << >>
  /\ pst[1].attachments # << >>
  /\ pst[1].attachments[1].path # pst[2].attachments[1].path

\* the attachments written to files so far, by parse and place
Stored ==
  {w \in Parsers \X (1..MaxParts) :
     /\ w[2] <= Len(pst[w[1]].attachments)
     /\ pst[w[1]].attachments[w[2]].path # NoPath}
PathOf(w) == pst[w[1]].attachments[w[2]].path

\* C30: in tempfile mode no two attachments share a path, whether of one
\* message or of two parses side by side, same filename or not; each file
\* is named from the event id and a fresh id, and no write goes to a file
\* that is there already.
C30_PathsDistinct ==
  /\ ~clobbered
  /\ \A v, w \in Stored : v # w => PathOf(v) # PathOf(w)
  /\ \A w \in Stored :
       /\ PathOf(w) \in files
       /\ PathOf(w).uuid = puuid[w[1]]
       /\ PathOf(w).id \in 1..nextId

\* two parses of one session, each with two attachments named f.txt
C30_Witness ==
  /\ Parsed(1) /\ Parsed(2) /\ puuid[1] = puuid[2]
  /\ Len(pst[1].attachments) = 2 /\ Len(pst[2].attachments) = 2
  /\ \A w \in Stored : PathOf(w).name = <<"f.txt">>
  /\ Cardinality(files) = 4

\* C31: a DATA command answered 250 leaves the session with no sender and
\* no recipients, and the event of a later message of the session has the
\* sender and the recipients given since then and no others.
C31_LaterEventOwnEnvelope ==
  \A s \in Sessions :
    /\ (DataAnswered(s) /\ reply[s].code = 250) =>
         /\ delivered[s]
         /\ from[s] = "" /\ to[s] = << >> /\ ~fromReceived[s]
    /\ (delivered[s] /\ pc[s] = "exec") =>
         /\ event[s].from = from[s]
         /\ event[s].to = accepted[s]

\* a later message of a session in dispatch, with one recipient
C31_Witness ==
  \E s \in Sessions :
    delivered[s] /\ pc[s] = "exec" /\ Len(event[s].to) = 1

C33_OneSubmit ==
  \A s \in Sessions :
    /\ data[s].submits <= 1
    /\ data[s].submits = 0 => result[s] = NoResult /\ pc[s] # "exec"
    /\ ( /\ pc[s] = "exec" \/ DataAnswered(s)
         /\ data[s].len \in 1..(MaxMessageSize - 1)
         /\ ~data[s].readErr /\ data[s].msg = "plain" ) =>
         data[s].submits = 1

\* a dispatch that failed on a later message of a session, not repeated
C33_Witness ==
  \E s \in Sessions :
    /\ DispatchFailed(s) /\ delivered[s]
    /\ data[s].submits = 1 /\ reply[s].code = 451

\* C34: the worker pool is not destroyed by Stop nor reset by Reset while
\* a dispatch is executing on it, whether or not Stop has returned.
C34_PoolUntouchedInDispatch ==
  [][(wPool' # wPool \/ resets' # resets) =>
       \A s \in Sessions : pc[s] # "exec"]_vars

\* C35: once Stop has returned nil, every server that Serve started is
\* closed and none accepts connections, however Stop and the servers'
\* starts interleave.
C35_StoppedServersClosed ==
  stopResult = "nil" =>
    /\ ~serving
    /\ \A n \in Servers : srv[n].pc \notin {"listening"}
    /\ \A s \in Sessions : conn[s] # "open"

\* C36: while there is no worker pool, Reset returns nil, AddWorker and
\* RemoveWorker return an error, a dispatch returns an error, and none of
\* them dereferences the missing pool.
C36_NoPoolNoPanic ==
  /\ op.result # "panic"
  /\ wPool = "nil" =>
       /\ op.name = "Reset" => op.result = "nil"
       /\ op.name \in {"AddWorker", "RemoveWorker", "Exec"} =>
            op.result = "error"
       /\ resets = 0 /\ workers = 1

\* C37: the close-session RPC on the id of a tracked session returns
\* true, removes the session from the registry and closes its connection;
\* on an unknown id it returns false and changes nothing.  No session
\* with an open connection is missing from the registry.
C37_CloseSessionEnds ==
  /\ op.name = "CloseSession" => op.result \in {"true", "false"}
  /\ (op.name = "CloseSession" /\ op.result = "true") =>
       op.arg \notin connections /\ conn[op.arg] # "open"
  /\ \A s \in Sessions : conn[s] = "open" => s \in connections

C39_OldFilesRemoved ==
  /\ \A g \in gone : g.age > CleanupAfter
  /\ (cleanerPc = "running" /\ ~cleanupStop) =>
       \A f \in files : clock - modTime[f] <= CleanupAfter + Period(impl)

\* a file was removed, and a younger one is still there
C39_Witness ==
  /\ gone # {} /\ files # {}
  /\ \A f \in files : clock - modTime[f] <= CleanupAfter

\* C40: once Stop has completed, the cleanup routine executes no further
\* pass.
C40_NoPassAfterStop ==
  [][(tickPending /\ ~tickPending') =>
       ~(stopPc = "returned" /\ stopResult = "nil")]_vars

====
